---- MODULE Spec2Model ----
(***************************************************************************)
(* Model of the autocomplete controller of                                 *)
(* components/autocomplete/autocomplete.go and of the media viewer         *)
(* (package embed, Viewer).                                                *)
(*                                                                         *)
(* The text buffer is a sequence of Unicode code points; a text iterator   *)
(* is a character offset in 0..Len(text), offset i standing before the     *)
(* character text[i+1].  Strings handed to Go code are UTF-8 byte          *)
(* sequences.  A search result is identified by the searcher, the query    *)
(* that produced it and its rank.                                          *)
(***************************************************************************)
EXTENDS Integers, Sequences, FiniteSets, TLC

VARIABLES
    text,            \* contents of a.buffer
    cursor,          \* the buffer's cursor-position property
    start,           \* a.start (offset; -1 while nil)
    end,             \* a.end   (offset; -1 while nil)
    onSelects,       \* a.onSelects: what each callback returns, in order
    popoverVisible,  \* a.popover.IsVisible()
    listRows,        \* a.listRows: the data of each rendered row
    selected,        \* index into listRows of a.listBox.SelectedRow(), 0 = nil
    searchers,       \* a.searchers: the registered searchers, one per rune
    cancel,          \* a.cancel: 0 = nil, else the session whose context it cancels
    liveCtx,         \* sessions whose cancellable context is not cancelled
    liveSearch,      \* sessions whose timeout (search) context is not done
    minChars,        \* a.minChars
    timeout,         \* a.timeout
    poppedUp,        \* a.poppedUp
    cancelOnChange,  \* a.cancelOnChange
    paused,          \* a.paused
    pc,              \* "idle", "searching" while Autocomplete is inside Search,
                     \* or "panicked"
    searched,        \* the Search call made by the latest Autocomplete, if any
    lastOp,          \* the latest operation: <<name, selected row it started with>>
    ret,             \* what the latest operation returned (FALSE if nothing)
    invoked,         \* indexes of the callbacks the latest selectRow invoked
    data,            \* the SelectedData the latest selectRow handed to them
    headerStart,     \* widgets packed at the start of v.Header, in order
    toasts,          \* the toasts added to v.ToastOverlay, in order
    outFiles,        \* the paths os.Create has created
    viewerOp         \* the viewer's latest operation and the calls it made

controllerVars ==
    <<text, cursor, start, end, onSelects, popoverVisible, listRows,
      selected, searchers, cancel, liveCtx, liveSearch, minChars, timeout,
      poppedUp, cancelOnChange, paused, pc, searched, lastOp, ret, invoked,
      data>>

viewerVars == <<headerStart, toasts, outFiles, viewerOp>>

vars == <<controllerVars, viewerVars>>

bufferVars  == <<text, cursor, start, end>>
viewVars    == <<popoverVisible, poppedUp, listRows, selected>>
sessionVars == <<cancel, liveCtx, liveSearch>>
configVars  == <<onSelects, searchers, minChars, timeout, cancelOnChange>>

----------------------------------------------------------------------------
(* Bounds *)

MaxLen == 4          \* longest generated buffer, in characters
MaxMin == 2          \* largest minimum length given to SetMinLength
MaxCallbacks == 2    \* most selection callbacks registered
MaxRows == 3         \* most results one search returns
MaxSessions == 2     \* session identifiers available
SmallLen == 1        \* longest generated buffer when every operation is driven
SmallRows == 1       \* most results of one search where rows play no part
SmallCallbacks == 1  \* most selection callbacks when every operation is driven
SelectLen == 2       \* longest generated buffer when rows are selected
SelectRows == 2      \* most results of one search when rows are selected
NavLen == 1          \* longest generated buffer when rows are navigated
SessionLen == 1      \* longest generated buffer when sessions are followed
MaxToasts == 3       \* most toasts the viewer is followed through
Excess == 1          \* results one search may return beyond MaxResults
RenderLen == 1       \* longest generated buffer when results are rendered
RegistryLen == 1     \* longest generated buffer when searchers come and go
TeardownLen == 1     \* longest generated buffer when the view is unmapped
RebuildLen == 1      \* longest generated buffer when rows are rebuilt

(* Program constants *)

WhitespaceRune == 32

MaxResults == 8

\* The searchers a caller may hold: one triggered by '@', one by every word.
Searchers == {[name |-> "mention", rune |-> 64],
              [name |-> "word", rune |-> WhitespaceRune]}

\* The searchers of a caller that holds two for '@'.
Registrants == Searchers \cup {[name |-> "member", rune |-> 64]}

\* Characters of the generated buffers: ' ', '@' and U+00E9 (two bytes in UTF-8).
Alphabet == {32, 64, 233}

\* "hello @world foo"
Example == <<104, 101, 108, 108, 111, 32, 64, 119, 111, 114, 108, 100, 32,
             102, 111, 111>>
ExampleCursor == Len(Example) - 6

RECURSIVE Texts(_)
Texts(n) ==
    IF n = 0 THEN {<<>>}
    ELSE LET shorter == Texts(n - 1)
         IN shorter \cup {Append(t, ch) : t \in {s \in shorter : Len(s) = n - 1},
                                          ch \in Alphabet}

Inputs(n) == UNION {{<<t, c>> : c \in 0..Len(t)} : t \in Texts(n)}

\* Timeouts given to SetTimeout: none (the zero duration) and a positive one.
Timeouts == {0, 1}

SmallInputs   == Inputs(SmallLen)
SelectInputs  == Inputs(SelectLen)
NavInputs     == Inputs(NavLen)
SessionInputs == Inputs(SessionLen)
ExtractInputs == Inputs(MaxLen) \cup {<<Example, ExampleCursor>>}
RenderInputs  == Inputs(RenderLen)
RegistryInputs == Inputs(RegistryLen)
TeardownInputs == Inputs(TeardownLen)
RebuildInputs  == Inputs(RebuildLen)

----------------------------------------------------------------------------
(* Strings *)

IsSpace(r) ==
    r \in ({9, 10, 11, 12, 13, 32, 133, 160, 5760, 8232, 8233, 8239, 8287, 12288}
           \cup (8192..8202))

Utf8(r) ==
    IF r < 128 THEN <<r>>
    ELSE IF r < 2048 THEN <<192 + (r \div 64), 128 + (r % 64)>>
    ELSE <<224 + (r \div 4096), 128 + ((r \div 64) % 64), 128 + (r % 64)>>

RECURSIVE EncodeString(_)
EncodeString(cs) ==
    IF cs = <<>> THEN <<>> ELSE Utf8(Head(cs)) \o EncodeString(Tail(cs))

RuneCountInString(bs) ==
    Cardinality({i \in 1..Len(bs) : bs[i] \notin 128..191})

----------------------------------------------------------------------------
(* Text iterators *)

ForwardChar(t, i) == IF i < Len(t) THEN i + 1 ELSE i

BackwardChar(t, i) == IF i > 0 THEN i - 1 ELSE i

NoSearcher == "nil"

Runes(regs) == {s.rune : s \in regs}

\* a.searchers[r]
Lookup(regs, r) ==
    IF r \in Runes(regs) THEN (CHOOSE s \in regs : s.rune = r).name
    ELSE NoSearcher

\* Mutant: the scan does not stop at whitespace.
RECURSIVE BackwardFindChar_PastSpace(_, _, _)
BackwardFindChar_PastSpace(t, i, regs) ==
    IF i = 0 THEN [found |-> FALSE, pos |-> 0, searcher |-> NoSearcher]
    ELSE IF t[i] \in Runes(regs)
    THEN [found |-> TRUE, pos |-> i - 1, searcher |-> Lookup(regs, t[i])]
    ELSE BackwardFindChar_PastSpace(t, i - 1, regs)

\* The iterator steps back one character, then the predicate sees the
\* character it now stands before.
RECURSIVE BackwardFindChar(_, _, _)
BackwardFindChar(t, i, regs) ==
    IF i = 0 THEN [found |-> FALSE, pos |-> 0, searcher |-> NoSearcher]
    ELSE LET r == t[i]
         IN IF IsSpace(r)
            THEN [found |-> TRUE, pos |-> i - 1,
                  searcher |-> Lookup(regs, WhitespaceRune)]
            ELSE IF r \in Runes(regs)
            THEN [found |-> TRUE, pos |-> i - 1, searcher |-> Lookup(regs, r)]
            ELSE BackwardFindChar(t, i - 1, regs)

\* The iterator steps forward one character, then the predicate sees the
\* character it now stands before; stepping onto the end iterator ends the scan.
RECURSIVE ForwardFindChar(_, _)
ForwardFindChar(t, i) ==
    IF i + 1 >= Len(t) THEN [found |-> FALSE, pos |-> Len(t)]
    ELSE IF IsSpace(t[i + 2]) THEN [found |-> TRUE, pos |-> i + 1]
    ELSE ForwardFindChar(t, i + 1)

\* The characters between two iterators, whichever comes first.
BufferSlice(t, s, e) ==
    LET lo == IF s <= e THEN s ELSE e
        hi == IF s <= e THEN e ELSE s
    IN SubSeq(t, lo + 1, hi)

\* buffer.Text(start, end, false): the slice as a Go string.
BufferText(t, s, e) == EncodeString(BufferSlice(t, s, e))

BufferInsert(t, i, ch) == SubSeq(t, 1, i) \o <<ch>> \o SubSeq(t, i + 1, Len(t))

----------------------------------------------------------------------------
(* Word and trigger extraction: Autocomplete, from reading the cursor to the
   minimum-length test *)

\* a.end after the forward scan from the cursor.
MatchEnd(t, c) ==
    LET fwd == ForwardFindChar(t, c)
    IN IF fwd.found THEN BackwardChar(t, fwd.pos) ELSE fwd.pos

\* Mutant: the length is taken in bytes.
LongEnough_Bytes(q, minc) == ~(Len(q) < minc)

\* Whether the query is long enough to be searched.
LongEnough(q, minc) == ~(RuneCountInString(q) < minc)

Extract(t, c, regs, minc) ==
    LET back     == BackwardFindChar(t, c, regs)
        fallback == ~back.found \/ back.searcher = NoSearcher
        searcher == IF fallback THEN Lookup(regs, WhitespaceRune)
                    ELSE back.searcher
        s1       == ForwardChar(t, back.pos)
        e1       == MatchEnd(t, c)
        q        == BufferText(t, s1, e1)
        w        == BufferSlice(t, s1, e1)
    IN IF fallback /\ WhitespaceRune \notin Runes(regs)
       THEN [outcome |-> "nosearcher", searcher |-> NoSearcher,
             start |-> back.pos, end |-> c, query |-> <<>>, word |-> <<>>]
       ELSE IF ~LongEnough(q, minc)
       THEN [outcome |-> "short", searcher |-> searcher,
             start |-> s1, end |-> e1, query |-> q, word |-> w]
       ELSE [outcome |-> "search", searcher |-> searcher,
             start |-> BackwardChar(t, s1), end |-> e1, query |-> q,
             word |-> w]

----------------------------------------------------------------------------
(* Popover and list *)

\* Mutant: the flag is reset but the popover is not popped down.
hide_KeepsPopover ==
    /\ poppedUp' = FALSE
    /\ UNCHANGED popoverVisible

hide ==
    /\ popoverVisible' = (IF poppedUp THEN FALSE ELSE popoverVisible)
    /\ poppedUp' = FALSE

show ==
    /\ popoverVisible' = (IF ~poppedUp THEN TRUE ELSE popoverVisible)
    /\ poppedUp' = TRUE

\* Mutant: the rendered rows are left in place.
clear_KeepsRows == UNCHANGED <<listRows, selected>>

clear ==
    /\ listRows' = <<>>
    /\ selected' = 0

IsVisible == Len(listRows) > 0 /\ popoverVisible

\* Mutant: the rows are removed but the popover is left as it is.
ClearFrom_NoHide(sel) ==
    IF ~IsVisible
    THEN selected' = sel /\ UNCHANGED <<popoverVisible, poppedUp, listRows>>
    ELSE clear /\ UNCHANGED <<popoverVisible, poppedUp>>

\* The body of Clear() where the list box's selected row is sel; its return
\* value is IsVisible of the state before.
ClearFrom(sel) ==
    IF ~IsVisible
    THEN selected' = sel /\ UNCHANGED <<popoverVisible, poppedUp, listRows>>
    ELSE clear /\ hide

ClearBody == ClearFrom(selected)

\* No SelectedData: no callback was called.
NoData == [Bounds |-> <<-1, -1>>, Data |-> <<>>]

\* The record of a trigger that called no searcher.
NoSearch == [called |-> FALSE, searcher |-> NoSearcher, query |-> <<>>,
             start |-> 0, end |-> 0, session |-> 0, live |-> FALSE,
             superseded |-> 0]

\* What an operation leaves for the observer: its name and the selected row it
\* started with (0 where that plays no part), the value it returned, the
\* callbacks it invoked and the Search call it made.  Only selectRow hands
\* data to callbacks.
Observe(name, arg, r, inv, s) ==
    /\ lastOp' = <<name, arg>>
    /\ ret' = r
    /\ invoked' = inv
    /\ searched' = s
    /\ data' = NoData

----------------------------------------------------------------------------
(* Media viewer *)

BackButton == "BackButton"

DownloadFailed == "An error occured while downloading picture data"
CreateFailed   == "An I/O error occurred while creating the output file"
SaveFailed     == "An I/O error occurred while saving the file"
Saved          == "Picture saved successfully"
Copied         == "Copied URL!"

\* The output files a file chooser may hand to the download.
Files == {"picture.png", "copy.png"}

\* Header.Remove(w): w leaves the header bar; a widget that is not in it is
\* refused with a warning.
HeaderRemove(h, w) == SelectSeq(h, LAMBDA x : x # w)

\* Header.PackStart(w): w goes to the end of the start box; a widget that
\* already has a parent is refused with a warning.
HeaderPackStart(h, w) ==
    IF \E i \in 1..Len(h) : h[i] = w THEN h ELSE Append(h, w)

\* The start of the header bar h after the body of SetShowBackButton(show),
\* show being on.
ShowBackButton(h, on) ==
    HeaderPackStart(IF ~on THEN HeaderRemove(h, BackButton) ELSE h,
                    BackButton)

\* What a viewer operation leaves for the observer: its name, its arguments
\* and the calls it made.
Called(name, on, file, calls) ==
    viewerOp' = [name |-> name, show |-> on, file |-> file, calls |-> calls]

\* The viewer NewViewer returns.
NewViewer ==
    /\ headerStart = ShowBackButton(<<>>, TRUE)
    /\ toasts = <<>>
    /\ outFiles = {}
    /\ viewerOp = [name |-> "NewViewer", show |-> TRUE, file |-> "",
                   calls |-> <<>>]

SetShowBackButton(on) ==
    /\ headerStart' = ShowBackButton(headerStart, on)
    /\ Called("SetShowBackButton", on, "", <<>>)
    /\ UNCHANGED <<toasts, outFiles, controllerVars>>

\* Mutant: a failure is reported and the run goes on to report success.
SaveToasts_NoReturn(got, created, copied) ==
    IF ~got THEN <<DownloadFailed, Saved>>
    ELSE IF ~created THEN <<CreateFailed, Saved>>
    ELSE IF ~copied THEN <<SaveFailed, Saved>>
    ELSE <<Saved>>

\* The toasts saveToFile adds, given which of http.Get, os.Create and io.Copy
\* return without an error.
SaveToasts(got, created, copied) ==
    IF ~got THEN <<DownloadFailed>>
    ELSE IF ~created THEN <<CreateFailed>>
    ELSE IF ~copied THEN <<SaveFailed>>
    ELSE <<Saved>>

\* The calls saveToFile makes, in order.
SaveCalls(got, created, copied) ==
    IF ~got THEN <<"http.Get">>
    ELSE IF ~created THEN <<"http.Get", "os.Create">>
    ELSE <<"http.Get", "os.Create", "io.Copy">>

saveToFile(file, got, created, copied) ==
    /\ toasts' = toasts \o SaveToasts(got, created, copied)
    /\ outFiles' = (IF got /\ created THEN outFiles \cup {file} ELSE outFiles)
    /\ Called("download", FALSE, file, SaveCalls(got, created, copied))

\* The download action: the file chooser's response is accepted with a file,
\* or it is not and nothing is saved.
download(accepted, file, got, created, copied) ==
    /\ Len(toasts) < MaxToasts
    /\ IF accepted
       THEN saveToFile(file, got, created, copied)
       ELSE /\ Called("download", FALSE, "", <<>>)
            /\ UNCHANGED <<toasts, outFiles>>
    /\ UNCHANGED <<headerStart, controllerVars>>

copyURL ==
    /\ Len(toasts) < MaxToasts
    /\ toasts' = Append(toasts, Copied)
    /\ Called("copyURL", FALSE, "", <<>>)
    /\ UNCHANGED <<headerStart, outFiles, controllerVars>>

----------------------------------------------------------------------------
(* Construction *)

\* The controller New returns for a text view whose buffer holds t with the
\* cursor at c, after Use of the searchers regs.
Constructed(regs, t, c) ==
    /\ text = t
    /\ cursor = c
    /\ start = -1
    /\ end = -1
    /\ onSelects = <<>>
    /\ popoverVisible = FALSE
    /\ listRows = <<>>
    /\ selected = 0
    /\ searchers = regs
    /\ cancel = 0
    /\ liveCtx = {}
    /\ liveSearch = {}
    /\ minChars = 0
    /\ timeout = 0
    /\ poppedUp = FALSE
    /\ cancelOnChange = FALSE
    /\ paused = FALSE
    /\ pc = "idle"
    /\ searched = NoSearch
    /\ lastOp = <<"New", 0>>
    /\ ret = FALSE
    /\ invoked = <<>>
    /\ data = NoData

Init == Constructed({}, <<>>, 0) /\ NewViewer

----------------------------------------------------------------------------
(* Configuration *)

\* Mutant: the flag is set but the popover is not cleared.
Pause_NoClear ==
    /\ pc = "idle"
    /\ paused' = TRUE
    /\ Observe("Pause", selected, FALSE, <<>>, NoSearch)
    /\ UNCHANGED <<bufferVars, viewVars, sessionVars, configVars, pc,
                   viewerVars>>

Pause ==
    /\ pc = "idle"
    /\ paused' = TRUE
    /\ ClearBody
    /\ Observe("Pause", selected, FALSE, <<>>, NoSearch)
    /\ UNCHANGED <<bufferVars, sessionVars, configVars, pc, viewerVars>>

Unpause ==
    /\ pc = "idle"
    /\ paused' = FALSE
    /\ Observe("Unpause", 0, FALSE, <<>>, NoSearch)
    /\ UNCHANGED <<bufferVars, viewVars, sessionVars, configVars, pc,
                   viewerVars>>

SetMinLength(minLength) ==
    /\ pc = "idle"
    /\ minChars' = minLength
    /\ Observe("Configure", 0, FALSE, <<>>, NoSearch)
    /\ UNCHANGED <<bufferVars, viewVars, sessionVars, onSelects, searchers,
                   timeout, cancelOnChange, paused, pc,
                   viewerVars>>

SetCancelOnChange(v) ==
    /\ pc = "idle"
    /\ cancelOnChange' = v
    /\ Observe("Configure", 0, FALSE, <<>>, NoSearch)
    /\ UNCHANGED <<bufferVars, viewVars, sessionVars, onSelects, searchers,
                   minChars, timeout, paused, pc,
                   viewerVars>>

SetTimeout(d) ==
    /\ pc = "idle"
    /\ timeout' = d
    /\ Observe("Configure", 0, FALSE, <<>>, NoSearch)
    /\ UNCHANGED <<bufferVars, viewVars, sessionVars, onSelects, searchers,
                   minChars, cancelOnChange, paused, pc,
                   viewerVars>>

AddSelectedFunc(selectedFunc) ==
    /\ pc = "idle"
    /\ onSelects' = Append(onSelects, selectedFunc)
    /\ Observe("Configure", 0, FALSE, <<>>, NoSearch)
    /\ UNCHANGED <<bufferVars, viewVars, sessionVars, searchers, minChars,
                   timeout, cancelOnChange, paused, pc,
                   viewerVars>>

\* Mutant: the searcher replaces the one stored for its rune.
Use_Replace(s) ==
    /\ pc = "idle"
    /\ searchers' = {x \in searchers : x.rune # s.rune} \cup {s}
    /\ Observe("Configure", 0, FALSE, <<>>, NoSearch)
    /\ UNCHANGED <<bufferVars, viewVars, sessionVars, onSelects, minChars,
                   timeout, cancelOnChange, paused, pc, viewerVars>>

\* Use of one searcher: log.Panicf on a rune that is registered leaves the
\* controller as it was and ends the run of the program.
Use(s) ==
    /\ pc = "idle"
    /\ IF s.rune \in Runes(searchers)
       THEN pc' = "panicked" /\ UNCHANGED searchers
       ELSE searchers' = searchers \cup {s} /\ UNCHANGED pc
    /\ Observe("Configure", 0, FALSE, <<>>, NoSearch)
    /\ UNCHANGED <<bufferVars, viewVars, sessionVars, onSelects, minChars,
                   timeout, cancelOnChange, paused, viewerVars>>

Unuse(s) ==
    /\ pc = "idle"
    /\ searchers' = searchers \ {s}
    /\ Observe("Configure", 0, FALSE, <<>>, NoSearch)
    /\ UNCHANGED <<bufferVars, viewVars, sessionVars, onSelects, minChars,
                   timeout, cancelOnChange, paused, pc,
                   viewerVars>>

----------------------------------------------------------------------------
(* Autocomplete *)

\* Mutant: the previous session is dropped without being cancelled.
CancelPrevious_Keep(live) == live

\* if a.cancel != nil { a.cancel(); a.cancel = nil }: the contexts left alive.
CancelPrevious(live) == IF cancel # 0 THEN live \ {cancel} ELSE live

\* A session identifier no live context uses.
NewSession(ctxs, searches) ==
    CHOOSE id \in 1..(MaxSessions + 1) :
        /\ id \notin ctxs \cup searches
        /\ \A other \in 1..(id - 1) : other \in ctxs \cup searches

\* Whether context.WithTimeout(ctx, d) is alive when it is handed to Search.
AliveAtSearch(d) == d > 0

\* Autocomplete from its entry to the call of searcher.Search, or to the
\* return that comes before it.  t and c are the contents and the cursor
\* position the trigger finds in the buffer.
AutocompleteBegin(t, c) ==
    LET ctxs     == CancelPrevious(liveCtx)
        searches == CancelPrevious(liveSearch)
        x        == Extract(t, c, searchers, minChars)
        id       == NewSession(ctxs, searches)
    IN /\ pc = "idle"
       /\ text' = t
       /\ cursor' = c
       /\ clear
       /\ UNCHANGED <<configVars, paused, viewerVars>>
       /\ IF paused
          THEN /\ hide
               /\ cancel' = 0
               /\ liveCtx' = ctxs
               /\ liveSearch' = searches
               /\ Observe("Autocomplete", 0, FALSE, <<>>, NoSearch)
               /\ UNCHANGED <<start, end, pc>>
          ELSE IF x.outcome # "search"
          THEN /\ hide
               /\ start' = x.start
               /\ end' = x.end
               /\ cancel' = 0
               /\ liveCtx' = ctxs
               /\ liveSearch' = searches
               /\ Observe("Autocomplete", 0, FALSE, <<>>, NoSearch)
               /\ UNCHANGED pc
          ELSE /\ start' = x.start
               /\ end' = x.end
               /\ cancel' = (IF cancelOnChange THEN id ELSE 0)
               /\ liveCtx' = (IF cancelOnChange THEN ctxs \cup {id} ELSE ctxs)
               /\ liveSearch' = (IF AliveAtSearch(timeout)
                                 THEN searches \cup {id} ELSE searches)
               /\ Observe("Autocomplete", 0, FALSE, <<>>,
                          [called |-> TRUE, searcher |-> x.searcher,
                           query |-> x.query, start |-> x.start,
                           end |-> x.end, session |-> id,
                           live |-> AliveAtSearch(timeout),
                           superseded |-> cancel])
               /\ pc' = "searching"
               /\ UNCHANGED <<popoverVisible, poppedUp>>

\* The rows built from the n results Search returned.
Results(n) == [i \in 1..n |-> <<searched.searcher, searched.query, i>>]

\* defer cancel(): the search context is done when Autocomplete returns.
DeferredCancel(searches) == searches \ {searched.session}

\* Autocomplete from the return of searcher.Search, with n results, to its end.
AutocompleteEnd(n) ==
    /\ pc = "searching"
    /\ pc' = "idle"
    /\ liveSearch' = DeferredCancel(liveSearch)
    /\ IF n = 0
       THEN hide /\ UNCHANGED <<listRows, selected>>
       ELSE /\ listRows' = listRows \o Results(n)
            /\ selected' = 1
            /\ show
    /\ UNCHANGED <<bufferVars, configVars, cancel, liveCtx, paused, searched,
                   lastOp, ret, invoked, data, viewerVars>>

\* Mutant: the handler leaves a.cancel uncalled.
Unmap_NoCancel ==
    /\ pc = "idle"
    /\ Observe("Unmap", 0, FALSE, <<>>, NoSearch)
    /\ UNCHANGED <<bufferVars, viewVars, sessionVars, configVars, paused, pc,
                   viewerVars>>

\* The text view's unmap signal: if ac.cancel != nil { ac.cancel() }.  The
\* handler leaves a.cancel set.
Unmap ==
    /\ pc = "idle"
    /\ liveCtx' = (IF cancel # 0 THEN liveCtx \ {cancel} ELSE liveCtx)
    /\ liveSearch' = (IF cancel # 0 THEN liveSearch \ {cancel} ELSE liveSearch)
    /\ Observe("Unmap", 0, FALSE, <<>>, NoSearch)
    /\ UNCHANGED <<bufferVars, viewVars, cancel, configVars, paused, pc,
                   viewerVars>>

\* The deadline of the search context passes while Search is running.
Expire ==
    /\ pc = "searching"
    /\ searched.session \in liveSearch
    /\ liveSearch' = liveSearch \ {searched.session}
    /\ UNCHANGED <<bufferVars, viewVars, configVars, cancel, liveCtx, paused,
                   pc, searched, lastOp, ret, invoked, data, viewerVars>>

----------------------------------------------------------------------------
(* Selection and navigation *)

Clear ==
    /\ pc = "idle"
    /\ ClearBody
    /\ Observe("Clear", selected, IsVisible, <<>>, NoSearch)
    /\ UNCHANGED <<bufferVars, sessionVars, configVars, paused, pc,
                   viewerVars>>

\* Mutant: the last callback counts as handling whatever it returns.
FirstHandler_Last(fs) ==
    IF \E k \in 1..Len(fs) : fs[k]
    THEN CHOOSE k \in 1..Len(fs) : fs[k] /\ \A j \in 1..(k - 1) : ~fs[j]
    ELSE Len(fs)

\* Index of the first callback that returns true, 0 if none does.
FirstHandler(fs) ==
    IF \E k \in 1..Len(fs) : fs[k]
    THEN CHOOSE k \in 1..Len(fs) : fs[k] /\ \A j \in 1..(k - 1) : ~fs[j]
    ELSE 0

\* The callbacks selectRow invokes, in the order it invokes them.
Invoked(fs) ==
    IF FirstHandler(fs) = 0 THEN [k \in 1..Len(fs) |-> k]
    ELSE [k \in 1..FirstHandler(fs) |-> k]

\* Mutant: the space goes to the start of the match range.
InsertAt_Start == start

\* Where buffer.Insert(data.Bounds[1], " ") puts the space.
InsertAt == end

\* selectRow(row), row being the row at index r of the list (0: nil) and
\* the list box's selected row.
selectRow(r) ==
    IF r = 0
    THEN /\ ClearFrom(r)
         /\ invoked' = <<>>
         /\ data' = NoData
         /\ UNCHANGED bufferVars
    ELSE /\ invoked' = Invoked(onSelects)
         /\ data' = [Bounds |-> <<start, end>>, Data |-> listRows[r]]
         /\ IF FirstHandler(onSelects) # 0
            THEN /\ text' = BufferInsert(text, InsertAt, WhitespaceRune)
                 /\ end' = InsertAt + 1
                 /\ cursor' = (IF InsertAt <= cursor THEN cursor + 1 ELSE cursor)
                 /\ UNCHANGED start
                 /\ ClearFrom(r)
            ELSE /\ selected' = r
                 /\ UNCHANGED <<bufferVars, popoverVisible, poppedUp, listRows>>

\* Mutant: the first row is applied, whichever row is highlighted.
Select_First ==
    /\ pc = "idle"
    /\ lastOp' = <<"Select", selected>>
    /\ searched' = NoSearch
    /\ IF Len(listRows) = 0 \/ ~IsVisible
       THEN /\ ret' = FALSE
            /\ invoked' = <<>>
            /\ data' = NoData
            /\ UNCHANGED <<bufferVars, viewVars>>
       ELSE /\ ret' = TRUE
            /\ selectRow(1)
    /\ UNCHANGED <<sessionVars, configVars, paused, pc, viewerVars>>

Select ==
    /\ pc = "idle"
    /\ lastOp' = <<"Select", selected>>
    /\ searched' = NoSearch
    /\ IF Len(listRows) = 0 \/ ~IsVisible
       THEN /\ ret' = FALSE
            /\ invoked' = <<>>
            /\ data' = NoData
            /\ UNCHANGED <<bufferVars, viewVars>>
       ELSE /\ ret' = TRUE
            /\ selectRow(selected)
    /\ UNCHANGED <<sessionVars, configVars, paused, pc,
                   viewerVars>>

\* The list box's row-activated signal for the row at index r, which the
\* list box has made its selected row.
RowActivated(r) ==
    /\ pc = "idle"
    /\ popoverVisible
    /\ r \in 1..Len(listRows)
    /\ lastOp' = <<"RowActivated", r>>
    /\ searched' = NoSearch
    /\ ret' = FALSE
    /\ selectRow(r)
    /\ UNCHANGED <<sessionVars, configVars, paused, pc,
                   viewerVars>>

\* Mutant: the index stops at either end of the list.
MoveIndex_NoWrap(down, ix, n) ==
    IF down THEN (IF ix + 1 = n + 1 THEN n ELSE ix + 1)
    ELSE (IF ix - 1 = 0 THEN 1 ELSE ix - 1)

\* The index move selects, from the selected index ix of n rows.
MoveIndex(down, ix, n) ==
    IF down THEN (IF ix + 1 = n + 1 THEN 1 ELSE ix + 1)
    ELSE (IF ix - 1 = 0 THEN n ELSE ix - 1)

move(down) ==
    /\ pc = "idle"
    /\ Observe(IF down THEN "MoveDown" ELSE "MoveUp", selected,
               Len(listRows) # 0, <<>>, NoSearch)
    /\ selected' = IF Len(listRows) = 0 THEN selected
                   ELSE IF selected = 0 THEN 1
                   ELSE MoveIndex(down, selected, Len(listRows))
    /\ UNCHANGED <<bufferVars, popoverVisible, poppedUp, listRows, sessionVars,
                   configVars, paused, pc,
                   viewerVars>>

MoveUp == move(FALSE)

MoveDown == move(TRUE)

----------------------------------------------------------------------------
(* Specifications *)

\* The controller driven through its operations on the view.
Next ==
    \/ \E in \in SmallInputs : AutocompleteBegin(in[1], in[2])
    \/ \E n \in 0..SmallRows : AutocompleteEnd(n)
    \/ Pause
    \/ Unpause
    \/ Clear
    \/ Select
    \/ \E r \in 1..SmallRows : RowActivated(r)
    \/ MoveUp
    \/ MoveDown
    \/ \E f \in BOOLEAN : Len(onSelects) < SmallCallbacks /\ AddSelectedFunc(f)
    \/ \E s \in Searchers : Use(s)
    \/ \E s \in Searchers : Unuse(s)

Spec == Init /\ [][Next]_vars

\* Selection: callbacks are registered, triggers on the buffer as it stands
\* return rows, rows are selected.  A handled selection lengthens the buffer;
\* rows are selected while the buffer is no longer than a generated one.
InitSelect ==
    /\ \E in \in SelectInputs : Constructed(Searchers, in[1], in[2])
    /\ NewViewer

NextSelect ==
    \/ \E f \in BOOLEAN : Len(onSelects) < MaxCallbacks /\ AddSelectedFunc(f)
    \/ AutocompleteBegin(text, cursor)
    \/ \E n \in 0..SelectRows : AutocompleteEnd(n)
    \/ Len(text) <= SelectLen /\ Select
    \/ \E r \in 1..SelectRows : Len(text) <= SelectLen /\ RowActivated(r)

SpecSelect == InitSelect /\ [][NextSelect]_vars

\* Navigation of the rendered rows.
InitNav == Constructed(Searchers, <<>>, 0) /\ NewViewer

NextNav ==
    \/ \E in \in NavInputs : AutocompleteBegin(in[1], in[2])
    \/ \E n \in 0..MaxRows : AutocompleteEnd(n)
    \/ MoveUp
    \/ MoveDown
    \/ Clear

SpecNav == InitNav /\ [][NextNav]_vars

\* Search sessions: triggers in both cancel-on-change modes, with and
\* without a timeout.
InitSession == Constructed(Searchers, <<>>, 0) /\ NewViewer

NextSession ==
    \/ \E v \in BOOLEAN : SetCancelOnChange(v)
    \/ \E d \in Timeouts : SetTimeout(d)
    \/ \E in \in SessionInputs : AutocompleteBegin(in[1], in[2])
    \/ \E n \in 0..SmallRows : AutocompleteEnd(n)

SpecSession == InitSession /\ [][NextSession]_vars

\* Word and trigger extraction over every buffer, cursor, registry and
\* minimum length within the bounds: triggers on the buffer as it stands.
InitExtract ==
    /\ \E regs \in SUBSET Searchers, in \in ExtractInputs :
          Constructed(regs, in[1], in[2])
    /\ NewViewer

NextExtract ==
    \/ \E m \in 0..MaxMin : SetMinLength(m)
    \/ AutocompleteBegin(text, cursor)
    \/ \E n \in 0..SmallRows : AutocompleteEnd(n)

SpecExtract == InitExtract /\ [][NextExtract]_vars

\* Rendering: searches that return up to MaxResults + Excess results, with
\* and without a timeout, some outliving their deadline.
InitRender == Constructed(Searchers, <<>>, 0) /\ NewViewer

NextRender ==
    \/ \E d \in Timeouts : SetTimeout(d)
    \/ \E in \in RenderInputs : AutocompleteBegin(in[1], in[2])
    \/ Expire
    \/ \E n \in 0..(MaxResults + Excess) : AutocompleteEnd(n)

SpecRender == InitRender /\ [][NextRender]_vars

\* The registry: searchers, two of them for the same rune, are registered
\* and removed between triggers.
InitRegistry == Constructed({}, <<>>, 0) /\ NewViewer

NextRegistry ==
    \/ \E s \in Registrants : Use(s)
    \/ \E s \in Registrants : Unuse(s)
    \/ \E in \in RegistryInputs : AutocompleteBegin(in[1], in[2])
    \/ \E n \in 0..SmallRows : AutocompleteEnd(n)

SpecRegistry == InitRegistry /\ [][NextRegistry]_vars

\* Teardown: sessions in both cancel-on-change modes meet Pause, Clear and
\* the unmapping of the text view.
InitTeardown == Constructed(Searchers, <<>>, 0) /\ NewViewer

NextTeardown ==
    \/ \E v \in BOOLEAN : SetCancelOnChange(v)
    \/ \E in \in TeardownInputs : AutocompleteBegin(in[1], in[2])
    \/ \E n \in 0..SmallRows : AutocompleteEnd(n)
    \/ Pause
    \/ Unpause
    \/ Clear
    \/ Unmap

SpecTeardown == InitTeardown /\ [][NextTeardown]_vars

\* Rebuilding: triggers that search, return nothing or abort (paused, no
\* searcher, query too short) follow one another, with the highlight moved
\* in between.
InitRebuild == Constructed({}, <<>>, 0) /\ NewViewer

NextRebuild ==
    \/ \E s \in Searchers : Use(s)
    \/ \E s \in Searchers : Unuse(s)
    \/ \E m \in {0, MaxMin} : SetMinLength(m)
    \/ \E v \in BOOLEAN : SetCancelOnChange(v)
    \/ Pause
    \/ Unpause
    \/ \E in \in RebuildInputs : AutocompleteBegin(in[1], in[2])
    \/ \E n \in 0..MaxRows : AutocompleteEnd(n)
    \/ MoveDown

SpecRebuild == InitRebuild /\ [][NextRebuild]_vars

\* The media viewer driven through its header bar and its actions.
InitViewer == Constructed({}, <<>>, 0) /\ NewViewer

NextViewer ==
    \/ \E on \in BOOLEAN : SetShowBackButton(on)
    \/ \E accepted \in BOOLEAN, file \in Files, got \in BOOLEAN,
          created \in BOOLEAN, copied \in BOOLEAN :
            download(accepted, file, got, created, copied)
    \/ copyURL

SpecViewer == InitViewer /\ [][NextViewer]_vars

----------------------------------------------------------------------------
(* Properties *)

Hidden == listRows = <<>> /\ ~popoverVisible

\* C1: whenever an operation has returned, the popover is visible if and only
\* if the rendered result set is non-empty and the controller is not paused.
C1_VisibleIffRowsAndNotPaused ==
    pc = "idle" => (popoverVisible <=> (Len(listRows) > 0 /\ ~paused))

\* A visible popover with rows, after Pause, Unpause and a new search.
C1_Witness ==
    /\ pc = "idle"
    /\ popoverVisible
    /\ Len(listRows) > 0
    /\ ~paused
    /\ lastOp[1] = "Unpause"

\* C3: Pause while the popover is visible leaves the result set empty and the
\* popover hidden; an Autocomplete trigger while paused calls no searcher and
\* leaves the popover hidden; Unpause changes neither rows nor visibility, and
\* a hidden, empty controller stays so until an Autocomplete trigger returns
\* results.
C3_PauseHides ==
    /\ [][(Pause /\ popoverVisible) => Hidden']_vars
    /\ [][(pc = "idle" /\ paused /\ lastOp'[1] = "Autocomplete")
            => (pc' = "idle" /\ ~searched'.called /\ Hidden')]_vars
    /\ [][Unpause => UNCHANGED <<listRows, popoverVisible>>]_vars
    /\ [][(Hidden /\ ~Hidden') => (pc = "searching" /\ ~paused)]_vars

\* Pause was called with a row selected in a visible popover.
C3_Witness ==
    /\ lastOp[1] = "Pause"
    /\ lastOp[2] > 0
    /\ paused
    /\ Hidden

\* C4: Clear from a visible state returns true and leaves the result set empty
\* and the popover hidden; Clear right after a Clear, or on a hidden, empty
\* controller, returns false and changes nothing.
C4_ClearIdempotent ==
    /\ [][(Clear /\ IsVisible) => (ret' /\ Hidden')]_vars
    /\ [][(Clear /\ (lastOp[1] = "Clear" \/ Hidden))
            => (~ret' /\ UNCHANGED <<bufferVars, viewVars, sessionVars,
                                     configVars, paused, pc>>)]_vars

\* A Clear that found the popover visible has returned true.
C4_Witness ==
    /\ lastOp[1] = "Clear"
    /\ lastOp[2] > 0
    /\ ret
    /\ Hidden

SelectionStep ==
    \/ Select /\ IsVisible
    \/ \E r \in 1..Len(listRows) : RowActivated(r)

\* C5: when a row is selected and some callback returns true, the callbacks
\* up to the first that returns true are invoked in registration order and
\* none after it, exactly one space is inserted at the end of the match range,
\* and afterwards the result set is empty and the popover hidden.
C5_SelectionHandled ==
    [][(SelectionStep /\ \E k \in 1..Len(onSelects) : onSelects[k]) =>
         /\ \E k \in 1..Len(onSelects) :
              /\ onSelects[k]
              /\ \A j \in 1..(k - 1) : ~onSelects[j]
              /\ invoked' = [i \in 1..k |-> i]
         /\ Len(text') = Len(text) + 1
         /\ text'[end + 1] = WhitespaceRune
         /\ \A i \in 1..Len(text) :
              text[i] = text'[IF i <= end THEN i ELSE i + 1]
         /\ Hidden']_vars

\* The first of two callbacks handled the selection; the second was not
\* invoked.
C5_Witness ==
    /\ lastOp[1] = "Select"
    /\ ret
    /\ Len(onSelects) = 2
    /\ onSelects[1]
    /\ invoked = <<1>>
    /\ text # <<>>
    /\ Hidden

\* C6: when a row is selected and no callback returns true, the buffer text,
\* the rendered result set, the highlighted row and the popover visibility
\* are unchanged.
C6_SelectionUnhandled ==
    [][(SelectionStep /\ \A k \in 1..Len(onSelects) : ~onSelects[k]) =>
         /\ UNCHANGED <<text, listRows, popoverVisible>>
         /\ selected' = lastOp'[2]
         /\ (Select => UNCHANGED selected)]_vars

\* Two callbacks were invoked on an activated row and neither handled it.
C6_Witness ==
    /\ lastOp = <<"RowActivated", 2>>
    /\ invoked = <<1, 2>>
    /\ selected = 2
    /\ popoverVisible
    /\ Len(listRows) = 2

\* C7: with N >= 1 rows and row i highlighted, MoveDown highlights row
\* (i+1) mod N and MoveUp row (i-1) mod N (rows counted from 0), both return
\* true and leave the result set unchanged; with no rows both return false
\* and change nothing.
C7_MoveWraps ==
    [][((MoveUp \/ MoveDown) /\ (Len(listRows) > 0 => selected > 0)) =>
         IF Len(listRows) = 0
         THEN ~ret' /\ UNCHANGED <<bufferVars, viewVars, sessionVars,
                                   configVars, paused, pc>>
         ELSE /\ ret'
              /\ listRows' = listRows
              /\ MoveDown =>
                   selected' - 1 = (selected - 1 + 1) % Len(listRows)
              /\ MoveUp =>
                   selected' - 1 =
                       (selected - 1 + Len(listRows) - 1) % Len(listRows)]_vars

\* MoveDown from the last of three rows has wrapped to the first.
C7_Witness ==
    /\ lastOp = <<"MoveDown", 3>>
    /\ Len(listRows) = 3
    /\ selected = 1
    /\ ret

\* C8: if the extracted query text has fewer code points than the minimum
\* length, the trigger calls no searcher and ends with the popover hidden and
\* the result set empty.
C8_ShortQueryNotSearched ==
    [][(pc = "idle" /\ lastOp'[1] = "Autocomplete"
         /\ LET x == Extract(text', cursor', searchers, minChars)
            IN x.outcome # "nosearcher" /\ Len(x.word) < minChars)
       => (pc' = "idle" /\ ~searched'.called /\ Hidden')]_vars

\* "@" followed by one two-byte character, minimum length 2: not searched.
C8_Witness ==
    /\ lastOp[1] = "Autocomplete"
    /\ pc = "idle"
    /\ ~searched.called
    /\ minChars = 2
    /\ Len(text) = 2
    /\ cursor = 2
    /\ text[1] \in Runes(searchers)
    /\ ~IsSpace(text[1])
    /\ Utf8(text[2]) # <<text[2]>>
    /\ Hidden

\* The end of the word under the cursor: the first offset from the cursor on
\* that stands before whitespace or at the end of the buffer.
WordEnd(t, c) ==
    CHOOSE e \in c..Len(t) :
        /\ e = Len(t) \/ IsSpace(t[e + 1])
        /\ \A j \in c..(e - 1) : ~IsSpace(t[j + 1])

\* C9: for "hello @wor|ld foo", a searcher for '@' and minimum length 1, the
\* query is "world" and the match bounds span "@world"; in general the match
\* end is the end of the word under the cursor.
C9_WordUnderCursor ==
    (lastOp[1] = "Autocomplete" /\ searched.called) =>
        /\ end = WordEnd(text, cursor)
        /\ (text = Example /\ cursor = ExampleCursor /\ minChars = 1
            /\ searched.searcher = "mention") =>
               /\ searched.query = EncodeString(SubSeq(Example, 8, 12))
               /\ BufferSlice(text, start, end) = SubSeq(Example, 7, 12)

\* Whether the backward scan from the cursor meets neither whitespace nor a
\* registered trigger character.
ReachesStart(t, c, regs) ==
    \A i \in 1..c : ~IsSpace(t[i]) /\ t[i] \notin Runes(regs)

\* C10: when the backward scan reaches the start of the buffer, a registered
\* word-boundary searcher is called with the complete first word of the
\* buffer; without one no search is issued and the popover is hidden.
C10_FirstWord ==
    (lastOp[1] = "Autocomplete" /\ ReachesStart(text, cursor, searchers)) =>
        LET first == SubSeq(text, 1, WordEnd(text, cursor))
        IN IF WhitespaceRune \in Runes(searchers)
           THEN Len(first) >= minChars =>
                  /\ searched.called
                  /\ searched.searcher = "word"
                  /\ searched.query = EncodeString(first)
           ELSE ~searched.called /\ ~popoverVisible

\* C11: the rendered result set never holds more than MaxResults entries,
\* whatever number of results a search returns.
C11_AtMostMaxResults == Len(listRows) <= MaxResults

\* C12: when Search returns for a session whose search context has timed out
\* or was cancelled, the trigger ends with the result set empty and the
\* popover hidden, with or without a timeout set by SetTimeout.
C12_ExpiredSearchRendersNothing ==
    [][(pc = "searching" /\ pc' = "idle"
         /\ searched.session \notin liveSearch) => Hidden']_vars

\* C13: the registry never holds two searchers for one trigger character;
\* Use of a searcher whose trigger character is registered panics and leaves
\* the registry as it was.
C13_OneSearcherPerRune ==
    /\ [](\A a \in searchers, b \in searchers : a.rune = b.rune => a = b)
    /\ [][\A s \in Registrants :
            (Use(s) /\ s.rune \in Runes(searchers)) =>
               (pc' = "panicked" /\ UNCHANGED searchers)]_vars

\* Use has panicked on a registry that holds "member" for '@' and "word" for
\* ' ', and the registry holds them still.
C13_Witness ==
    /\ pc = "panicked"
    /\ searchers = {[name |-> "member", rune |-> 64],
                    [name |-> "word", rune |-> WhitespaceRune]}

\* C14: after Pause or Clear has returned, the cancellation token of the
\* session the most recent trigger created is cancelled.
C14_PauseClearCancel ==
    lastOp[1] \in {"Pause", "Clear"} => liveCtx \cup liveSearch = {}

C16_SelectReturns ==
    /\ [](IsVisible => selected \in 1..Len(listRows))
    /\ [][Select =>
            IF Len(listRows) = 0 \/ ~popoverVisible
            THEN /\ ~ret'
                 /\ invoked' = <<>>
                 /\ UNCHANGED <<bufferVars, viewVars, sessionVars, configVars,
                                paused, pc>>
            ELSE /\ ret'
                 /\ data'.Data = listRows[selected]
                 /\ \E m \in 0..Len(onSelects) :
                      /\ invoked' = [k \in 1..m |-> k]
                      /\ \A k \in 1..(m - 1) : ~onSelects[k]
                      /\ m < Len(onSelects) => onSelects[m]]_vars

\* Select has returned true with the second of two rows highlighted: the one
\* callback was run on that row's candidate and did not handle it.
C16_Witness ==
    /\ lastOp = <<"Select", 2>>
    /\ ret
    /\ Len(listRows) = 2
    /\ data.Data = listRows[2]
    /\ invoked = <<1>>

\* C17: a download with a chosen output file adds exactly one toast: the
\* success toast when http.Get, os.Create and io.Copy all succeed, otherwise
\* the failure toast of the first of them that fails, and none of the calls
\* after that one is made; a failed http.Get creates no output file.
C17_OneNotification ==
    [][\A file \in Files, got \in BOOLEAN, created \in BOOLEAN,
         copied \in BOOLEAN :
           download(TRUE, file, got, created, copied) =>
             /\ Len(toasts') = Len(toasts) + 1
             /\ SubSeq(toasts', 1, Len(toasts)) = toasts
             /\ (got /\ created /\ copied) <=>
                    toasts'[Len(toasts')] = Saved
             /\ ~got <=> toasts'[Len(toasts')] = DownloadFailed
             /\ (got /\ ~created) <=> toasts'[Len(toasts')] = CreateFailed
             /\ (got /\ created /\ ~copied) <=>
                    toasts'[Len(toasts')] = SaveFailed
             /\ ~got => /\ viewerOp'.calls = <<"http.Get">>
                        /\ outFiles' = outFiles
             /\ (got /\ ~created) =>
                    /\ viewerOp'.calls = <<"http.Get", "os.Create">>
                    /\ outFiles' = outFiles]_vars

\* A download whose http.Get failed has added its one toast after a
\* download that succeeded; the second file was not created.
C17_Witness ==
    /\ viewerOp.name = "download"
    /\ viewerOp.file = "copy.png"
    /\ viewerOp.calls = <<"http.Get">>
    /\ toasts = <<Saved, DownloadFailed>>
    /\ outFiles = {"picture.png"}

\* C18: after SetShowBackButton(false) the header bar does not contain the
\* back button; after SetShowBackButton(true) it contains it exactly once.
C18_BackButtonShown ==
    viewerOp.name = "SetShowBackButton" =>
        Cardinality({i \in 1..Len(headerStart) : headerStart[i] = BackButton})
            = (IF viewerOp.show THEN 1 ELSE 0)

\* The place of the nearest character before the cursor that is whitespace
\* or a registered trigger character, counted from 1; 0 if there is none.
Nearest(t, c, regs) ==
    IF \E i \in 1..c : IsSpace(t[i]) \/ t[i] \in Runes(regs)
    THEN CHOOSE i \in 1..c :
           /\ IsSpace(t[i]) \/ t[i] \in Runes(regs)
           /\ \A j \in (i + 1)..c : ~IsSpace(t[j]) /\ t[j] \notin Runes(regs)
    ELSE 0

\* The searcher the dispatch rule names: the one of the nearest trigger
\* character if no whitespace comes first, else the word-boundary searcher.
Dispatched(t, c, regs) ==
    LET i == Nearest(t, c, regs)
    IN IF i # 0 /\ ~IsSpace(t[i])
       THEN (CHOOSE s \in regs : s.rune = t[i]).name
       ELSE IF \E s \in regs : s.rune = WhitespaceRune
       THEN (CHOOSE s \in regs : s.rune = WhitespaceRune).name
       ELSE NoSearcher

\* C19: the searcher a trigger calls is the one registered for the nearest
\* trigger character before the cursor with no whitespace after it; when
\* whitespace or the buffer start comes first it is the word-boundary
\* searcher, and without one no searcher is called and the popover is hidden.
\* A trigger character before the nearest whitespace is never used.
C19_Dispatch ==
    lastOp[1] = "Autocomplete" =>
        /\ searched.called =>
              searched.searcher = Dispatched(text, cursor, searchers)
        /\ Dispatched(text, cursor, searchers) = NoSearcher =>
              ~searched.called /\ ~popoverVisible
        /\ (searched.called /\ \E j \in 1..cursor : IsSpace(text[j])) =>
              \/ searched.searcher = Lookup(searchers, WhitespaceRune)
              \/ \E i \in 1..cursor :
                    /\ Lookup(searchers, text[i]) = searched.searcher
                    /\ \A j \in i..cursor : ~IsSpace(text[j])

\* "@ " and one more character with the cursor at the end: the word-boundary
\* searcher was called, not the one for '@'.
C19_Witness ==
    /\ lastOp[1] = "Autocomplete"
    /\ Len(text) = 3
    /\ text[1] = 64
    /\ text[2] = WhitespaceRune
    /\ ~IsSpace(text[3])
    /\ cursor = 3
    /\ Cardinality(searchers) = 2
    /\ searched.called
    /\ searched.searcher = "word"

\* C20: when the backward scan stopped at whitespace, the start of the match
\* range handed to the searcher, and to selection callbacks as Bounds[0], is
\* the position after that whitespace.
C20_StartAfterWhitespace ==
    (/\ lastOp[1] = "Autocomplete"
     /\ searched.called
     /\ Nearest(text, cursor, searchers) # 0
     /\ IsSpace(text[Nearest(text, cursor, searchers)])) =>
        /\ searched.start = Nearest(text, cursor, searchers)
        /\ start = Nearest(text, cursor, searchers)

\* C21: a trigger removes every rendered row before it searches; when it
\* returns without a search the result set is empty; when its search returns
\* n results the result set is exactly those n, in the searcher's order, the
\* first of them highlighted if there is one.
C21_RebuiltOnTrigger ==
    /\ [][(pc = "idle" /\ lastOp'[1] = "Autocomplete") =>
            /\ listRows' = <<>>
            /\ pc' = "idle" <=> ~searched'.called]_vars
    /\ [][\A n \in 0..(MaxRows + 1) :
            AutocompleteEnd(n) =>
              /\ Len(listRows') = n
              /\ \A i \in 1..n :
                   listRows'[i] = <<searched.searcher, searched.query, i>>
              /\ n > 0 => selected' = 1]_vars

\* A search has returned two results after the session of an earlier search
\* was cancelled: they are the two rows, the first highlighted.
C21_Witness ==
    /\ pc = "idle"
    /\ lastOp[1] = "Autocomplete"
    /\ searched.called
    /\ searched.superseded # 0
    /\ listRows = <<<<searched.searcher, searched.query, 1>>,
                    <<searched.searcher, searched.query, 2>>>>
    /\ selected = 1

====
